---- MODULE Spec2Model ----
(***************************************************************************)
(* World-state backend of the EVM runtime (contract/src/state.cpp).        *)
(* The five tables the engine writes (accounts, per-account storage, code  *)
(* objects and the two garbage-collection queues) are sets of rows with a  *)
(* primary key `id`; every handler of evm_runtime::state is one action.    *)
(* addr2id and addr2code are the lookup caches of one state object and     *)
(* config is the fee configuration row of the contract, price_queue the    *)
(* gas-price changes waiting for their time, evm_version the version set   *)
(* by setversion and block_time the pending block time.  The stats         *)
(* counters every handler increments are write-only and are left out.      *)
(***************************************************************************)
EXTENDS Integers, FiniteSets, Sequences, TLC

VARIABLES accounts, storage, codes, gc_store, gc_code, last, ops, doomed,
          addr2id, addr2code, config, given, collected,
          price_queue, evm_version, block_time, missed

vars == <<accounts, storage, codes, gc_store, gc_code, last, ops, doomed,
          addr2id, addr2code, config, given, collected,
          price_queue, evm_version, block_time, missed>>
tables == <<accounts, storage, codes, gc_store, gc_code>>
\* the members of one state object that live as long as one transition
caches == <<addr2id, addr2code>>
\* what governs the deferred gas-price changes
schedule == <<price_queue, evm_version, block_time>>

(* ------------------------------ bounds --------------------------------- *)
\* number of calls into the engine a behaviour makes
MaxOps == 5
\* largest step budget handed to gc
MaxBudget == 3
\* number of blocks a behaviour produces
MaxTime == 3

(* --------------------------- input alphabets --------------------------- *)
Addresses == {"a1", "a2"}
kEmptyHash == "kEmptyHash"
CodeHashes == {"h1", "h2"}
ByteStrings == {<<96, 1>>, <<96, 2>>}
Locations == {1, 2}
Values == {0, 1, 2}
\* the `initial` slot value handed to update_storage, which never reads it
InitialValues == {0}
Nonces == {1}
Balances == {1}

\* std::optional<T>: the empty set, or a singleton
Nullopt == {}
Some(x) == {x}
Value(o) == CHOOSE x \in o : TRUE

\* the Account snapshots the interpreter hands in
AccountValues ==
    [nonce : Nonces, balance : Balances,
     code_hash : {kEmptyHash, "h1"}, incarnation : {0}]
OptAccounts == {Nullopt} \cup {Some(a) : a \in AccountValues}
\* the `initial` snapshots tried against a `current` one: the same, and a
\* different one (absent, or the freshly constructed Account{} when `current`
\* is absent); update_account only compares the two
DefaultAccount ==
    [nonce |-> 0, balance |-> 0, code_hash |-> kEmptyHash, incarnation |-> 0]
InitialSnapshots(current) ==
    {current, IF current = Nullopt THEN Some(DefaultAccount) ELSE Nullopt}

(* --------------------------- pure helpers ------------------------------ *)
\* width in bytes of a uint256 balance (intx::be::load<uint256>)
Uint256Bytes == 32

RECURSIVE to_bytes_be(_, _)
to_bytes_be(v, n) ==
    IF n = 0 THEN <<>> ELSE Append(to_bytes_be(v \div 256, n - 1), v % 256)

to_bytes(balance) == to_bytes_be(balance, Uint256Bytes)

\* row.code_hash = current->code_hash == kEmptyHash ? nullopt : to_bytes(code_hash)
NormalizedCodeHash(h) == IF h = kEmptyHash THEN Nullopt ELSE Some(h)

\* multi_index::available_primary_key on a freshly opened table
available_primary_key(rows) ==
    IF rows = {} THEN 0
    ELSE (CHOOSE r \in rows : \A q \in rows : q.id <= r.id).id + 1

\* multi_index::begin, and the row an index iterator points at: the row
\* with the lowest primary key
Begin(rows) == CHOOSE r \in rows : \A q \in rows : r.id <= q.id

\* a by.address lookup that misses the rows written without a balance
FindAccountSkipsUnfunded(address) ==
    {r \in accounts : r.eth_address = address /\ r.balance # <<>>}

\* index.find(key): the matching rows (end() when there is none)
FindAccount(address) == {r \in accounts : r.eth_address = address}
FindCode(code_hash) == {c \in codes : c.code_hash = code_hash}

\* a by.key lookup that takes the first row of the scope, whatever its key
FindSlotAnyKey(scope, location) == {s \in storage : s.scope = scope}

\* db.get_index<"by.key">().find(location) in the scope of one account
FindSlot(scope, location) ==
    {s \in storage : s.scope = scope /\ s.key = location}
\* storage_table db(_self, scope)
Scope(scope) == {s \in storage : s.scope = scope}

\* the call that ran last: the handler, the path it took and its arguments;
\* for gc the budget, the budget left on return and the value returned; for
\* a read the Account, the byte view or the slot value it returned; for
\* setfeeparams the fee_parameters it was handed
NoCall ==
    [op |-> "init", branch |-> "", address |-> "", current |-> Nullopt,
     code_hash |-> "", location |-> 0, value |-> 0,
     max |-> 0, left |-> 0, ret |-> FALSE,
     account |-> Nullopt, code |-> <<>>, result |-> 0,
     fee_params |-> [gas_price |-> Nullopt, miner_cut |-> Nullopt,
                     ingress_bridge_fee |-> Nullopt]]
CalledUpdateAccount(branch, address, current) ==
    [NoCall EXCEPT !.op = "update_account", !.branch = branch,
                   !.address = address, !.current = current]
CalledUpdateAccountCode(branch, address, code_hash) ==
    [NoCall EXCEPT !.op = "update_account_code", !.branch = branch,
                   !.address = address, !.code_hash = code_hash]
CalledUpdateStorage(branch, address, location, value) ==
    [NoCall EXCEPT !.op = "update_storage", !.branch = branch,
                   !.address = address, !.location = location, !.value = value]
CalledGc(max, left, ret) ==
    [NoCall EXCEPT !.op = "gc", !.max = max, !.left = left, !.ret = ret]

\* 1 Gwei in wei, the lowest gas_price setfeeparams accepts
OneGwei == 1000000000

\* the configuration row after init: gas_price in wei (2 Gwei), miner_cut
\* in 1/100000 and the amount of ingress_bridge_fee
StartingConfig ==
    [gas_price |-> 2 * OneGwei, miner_cut |-> 50000, ingress_bridge_fee |-> 3]

(* ------------------------------- Init ---------------------------------- *)
Init ==
    /\ accounts = {}
    /\ storage = {}
    /\ codes = {}
    /\ gc_store = {}
    /\ gc_code = {}
    /\ last = NoCall
    /\ ops = 0
    /\ doomed = {}
    /\ addr2id = {}
    /\ addr2code = {}
    /\ config = StartingConfig
    /\ given = {}
    /\ collected = {}
    /\ price_queue = {}
    /\ evm_version = 0
    /\ block_time = 0
    /\ missed = {}

(* --------------------------- update_account ---------------------------- *)
\* a queue row that records its own id instead of the account's
gc_store_emplaceOwnId(storage_id) ==
    gc_store \cup {[id |-> available_primary_key(gc_store),
                    storage_id |-> available_primary_key(gc_store)]}

\* gc.emplace: the storage scope of a deleted account joins the queue
gc_store_emplace(storage_id) ==
    gc_store \cup {[id |-> available_primary_key(gc_store),
                    storage_id |-> storage_id]}

\* queueing one reference too early, and one too late
NeedsCodeGcEarly(c) == c.ref_count <= 2
NeedsCodeGcLate(c) == c.ref_count < 1

\* the code object is queued when this was its last reference
NeedsCodeGc(c) == c.ref_count <= 1

\* a decrement without the guard, which leaves the range of ref_count at 0
DecrementRefUnguarded(c) == [c EXCEPT !.ref_count = c.ref_count - 1]

\* codes.modify on deletion: the guarded decrement of ref_count
DecrementRef(c) ==
    [c EXCEPT !.ref_count = IF c.ref_count > 0 THEN c.ref_count - 1
                            ELSE c.ref_count]

\* the path deletion takes through the code table for the account row `a`
DeleteBranch(a) ==
    IF a.code_hash = Nullopt THEN "erase_nocode"
    ELSE IF FindCode(Value(a.code_hash)) = {} THEN "erase_nocodeobj"
    ELSE IF NeedsCodeGc(Begin(FindCode(Value(a.code_hash)))) THEN "erase_gc"
    ELSE "erase_dec"

\* a queue that takes an entry for every account that names a code hash
DeleteAccountCodeQueueByHash(a) ==
    IF a.code_hash = Nullopt THEN gc_code
    ELSE gc_code \cup
         {[id |-> available_primary_key(gc_code),
           code_id |-> IF FindCode(Value(a.code_hash)) = {} THEN 0
                       ELSE Begin(FindCode(Value(a.code_hash))).id]}

\* a deletion that never queues the code object
DeleteAccountCodeQueueNever(a) == gc_code

\* the code-deletion queue after the account row `a` was deleted
DeleteAccountCodeQueue(a) ==
    IF DeleteBranch(a) = "erase_gc"
    THEN gc_code \cup {[id |-> available_primary_key(gc_code),
                        code_id |-> Begin(FindCode(Value(a.code_hash))).id]}
    ELSE gc_code

\* the code table after the account row `a` was deleted
DeleteAccountCodes(a) ==
    IF DeleteBranch(a) \in {"erase_gc", "erase_dec"}
    THEN LET c == Begin(FindCode(Value(a.code_hash))) IN
         (codes \ {c}) \cup {DecrementRef(c)}
    ELSE codes

\* a comparison that holds only for two present snapshots
equalWhenPresent(initial, current) == current = initial /\ current # Nullopt

\* const bool equal{current == initial}
equal(initial, current) == current = initial

\* a modification that moves the record to a new primary key
ModifiedAccountNewId(row, current) ==
    [row EXCEPT !.id = available_primary_key(accounts),
                !.nonce = Value(current).nonce,
                !.code_hash = NormalizedCodeHash(Value(current).code_hash),
                !.balance = to_bytes(Value(current).balance)]

\* accounts.modify(*itr, ...): the record after the in-place update
ModifiedAccount(row, current) ==
    [row EXCEPT !.nonce = Value(current).nonce,
                !.code_hash = NormalizedCodeHash(Value(current).code_hash),
                !.balance = to_bytes(Value(current).balance)]

\* a deletion that queues a storage scope although it found no record
update_accountQueuesMissing(address, initial, current) ==
    LET itr == FindAccount(address) IN
    IF equal(initial, current)
    THEN /\ UNCHANGED tables
         /\ last' = CalledUpdateAccount("equal", address, current)
    ELSE IF current # Nullopt
    THEN IF itr = {}
         THEN /\ accounts' = accounts \cup
                    {[id |-> available_primary_key(accounts),
                      eth_address |-> address,
                      nonce |-> Value(current).nonce,
                      balance |-> to_bytes(Value(current).balance),
                      code_hash |-> NormalizedCodeHash(Value(current).code_hash)]}
              /\ UNCHANGED <<storage, codes, gc_store, gc_code>>
              /\ last' = CalledUpdateAccount("create", address, current)
         ELSE /\ accounts' = (accounts \ {Begin(itr)}) \cup
                    {ModifiedAccount(Begin(itr), current)}
              /\ UNCHANGED <<storage, codes, gc_store, gc_code>>
              /\ last' = CalledUpdateAccount("modify", address, current)
    ELSE IF itr # {}
         THEN /\ gc_store' = gc_store_emplace(Begin(itr).id)
              /\ gc_code' = DeleteAccountCodeQueue(Begin(itr))
              /\ codes' = DeleteAccountCodes(Begin(itr))
              /\ accounts' = accounts \ {Begin(itr)}
              /\ UNCHANGED storage
              /\ last' = CalledUpdateAccount(DeleteBranch(Begin(itr)),
                                             address, current)
         ELSE /\ gc_store' = gc_store_emplace(0)
              /\ UNCHANGED <<accounts, storage, codes, gc_code>>
              /\ last' = CalledUpdateAccount("missing", address, current)

update_account(address, initial, current) ==
    LET itr == FindAccount(address) IN
    IF equal(initial, current)
    THEN /\ UNCHANGED tables
         /\ last' = CalledUpdateAccount("equal", address, current)
    ELSE IF current # Nullopt
    THEN IF itr = {}
         THEN /\ accounts' = accounts \cup
                    {[id |-> available_primary_key(accounts),
                      eth_address |-> address,
                      nonce |-> Value(current).nonce,
                      balance |-> to_bytes(Value(current).balance),
                      code_hash |-> NormalizedCodeHash(Value(current).code_hash)]}
              /\ UNCHANGED <<storage, codes, gc_store, gc_code>>
              /\ last' = CalledUpdateAccount("create", address, current)
         ELSE /\ accounts' = (accounts \ {Begin(itr)}) \cup
                    {ModifiedAccount(Begin(itr), current)}
              /\ UNCHANGED <<storage, codes, gc_store, gc_code>>
              /\ last' = CalledUpdateAccount("modify", address, current)
    ELSE IF itr # {}
         THEN /\ gc_store' = gc_store_emplace(Begin(itr).id)
              /\ gc_code' = DeleteAccountCodeQueue(Begin(itr))
              /\ codes' = DeleteAccountCodes(Begin(itr))
              /\ accounts' = accounts \ {Begin(itr)}
              /\ UNCHANGED storage
              /\ last' = CalledUpdateAccount(DeleteBranch(Begin(itr)),
                                             address, current)
         ELSE /\ UNCHANGED tables
              /\ last' = CalledUpdateAccount("missing", address, current)

(* ------------------------- update_account_code ------------------------- *)
\* a second creation that starts the count again
IncrementRefResets(c, code) == [c EXCEPT !.ref_count = 1]

\* a second creation that also stores the bytes it was handed
IncrementRefOverwrites(c, code) ==
    [c EXCEPT !.ref_count = @ + 1, !.code = code]

\* codes.modify when the hash is already stored: one more reference, the
\* bytes handed in are not looked at
IncrementRef(c, code) == [c EXCEPT !.ref_count = @ + 1]

update_account_code(address, code_hash, code) ==
    LET itrc == FindCode(code_hash)
        itr == FindAccount(address) IN
    /\ IF itrc = {}
       THEN codes' = codes \cup
                  {[id |-> available_primary_key(codes),
                    code_hash |-> code_hash,
                    code |-> code,
                    ref_count |-> 1]}
       ELSE codes' = (codes \ {Begin(itrc)}) \cup
                  {IncrementRef(Begin(itrc), code)}
    /\ IF itr # {}
       THEN accounts' = (accounts \ {Begin(itr)}) \cup
                  {[Begin(itr) EXCEPT !.code_hash = Some(code_hash)]}
       ELSE accounts' = accounts \cup
                  {[id |-> available_primary_key(accounts),
                    eth_address |-> address,
                    nonce |-> 0,
                    balance |-> <<>>,
                    code_hash |-> Some(code_hash)]}
    /\ last' = CalledUpdateAccountCode(
                      IF itrc = {}
                      THEN (IF itr # {} THEN "newcode_modify" ELSE "newcode_create")
                      ELSE (IF itr # {} THEN "refcode_modify" ELSE "refcode_create"),
                      address, code_hash)
    /\ UNCHANGED <<storage, gc_store, gc_code>>

(* ---------------------------- update_storage --------------------------- *)
\* a zero test that never fires
is_zeroNever(v) == FALSE

is_zero(v) == v = 0

update_storage(address, location, initial, current) ==
    LET itr == FindAccount(address) IN
    IF is_zero(current)
    THEN IF itr = {}
         THEN /\ UNCHANGED tables
              /\ last' = CalledUpdateStorage("no_account", address, location, current)
         ELSE LET itr2 == FindSlot(Begin(itr).id, location) IN
              IF itr2 = {}
              THEN /\ UNCHANGED tables
                   /\ last' = CalledUpdateStorage("no_slot", address, location, current)
              ELSE /\ storage' = storage \ {Begin(itr2)}
                   /\ UNCHANGED <<accounts, codes, gc_store, gc_code>>
                   /\ last' = CalledUpdateStorage("erase", address, location, current)
    ELSE LET table_id == IF itr = {} THEN available_primary_key(accounts)
                         ELSE Begin(itr).id
             itr2 == FindSlot(table_id, location) IN
         /\ IF itr = {}
            THEN accounts' = accounts \cup
                       {[id |-> table_id,
                         eth_address |-> address,
                         nonce |-> 0,
                         balance |-> <<>>,
                         code_hash |-> Some(kEmptyHash)]}
            ELSE UNCHANGED accounts
         /\ IF itr2 = {}
            THEN /\ storage' = storage \cup
                       {[scope |-> table_id,
                         id |-> available_primary_key(Scope(table_id)),
                         key |-> location,
                         value |-> current]}
                 /\ last' = CalledUpdateStorage("create", address, location, current)
            ELSE /\ storage' = (storage \ {Begin(itr2)}) \cup
                       {[Begin(itr2) EXCEPT !.value = current]}
                 /\ last' = CalledUpdateStorage("modify", address, location, current)
         /\ UNCHANGED <<codes, gc_store, gc_code>>

(* --------------------------------- gc ---------------------------------- *)
\* an inner loop that erases the whole scope and charges nothing
EraseScopeUnmetered(st, scope, max) ==
    [storage |-> {s \in st : s.scope # scope}, max |-> max]

\* inner loop: erase the rows of one storage scope while budget remains
RECURSIVE EraseScope(_, _, _)
EraseScope(st, scope, max) ==
    LET db == {s \in st : s.scope = scope} IN
    IF max = 0 \/ db = {} THEN [storage |-> st, max |-> max]
    ELSE EraseScope(st \ {Begin(db)}, scope, max - 1)

\* a first loop that does not charge for removing a queue row
RECURSIVE GcStoreLoopFreeDequeue(_, _, _)
GcStoreLoopFreeDequeue(gc, st, max) ==
    IF max = 0 \/ gc = {} THEN [gc |-> gc, storage |-> st, max |-> max]
    ELSE LET i == Begin(gc)
             r == EraseScope(st, i.storage_id, max) IN
         IF r.max = 0 THEN [gc |-> gc, storage |-> r.storage, max |-> 0]
         ELSE GcStoreLoopFreeDequeue(gc \ {i}, r.storage, r.max)

\* a first loop that starts from the newest entry
RECURSIVE GcStoreLoopNewestFirst(_, _, _)
GcStoreLoopNewestFirst(gc, st, max) ==
    IF max = 0 \/ gc = {} THEN [gc |-> gc, storage |-> st, max |-> max]
    ELSE LET i == CHOOSE r \in gc : \A q \in gc : q.id <= r.id
             r == EraseScope(st, i.storage_id, max) IN
         IF r.max = 0 THEN [gc |-> gc, storage |-> r.storage, max |-> 0]
         ELSE GcStoreLoopNewestFirst(gc \ {i}, r.storage, r.max - 1)

\* a first loop that takes the entry off as soon as its scope is empty, also
\* with no budget left
RECURSIVE GcStoreLoopDequeuesAtZero(_, _, _)
GcStoreLoopDequeuesAtZero(gc, st, max) ==
    IF gc = {} THEN [gc |-> gc, storage |-> st, max |-> max]
    ELSE LET i == Begin(gc)
             r == EraseScope(st, i.storage_id, max) IN
         IF \E s \in r.storage : s.scope = i.storage_id
         THEN [gc |-> gc, storage |-> r.storage, max |-> 0]
         ELSE IF r.max = 0 THEN [gc |-> gc \ {i}, storage |-> r.storage, max |-> 0]
         ELSE GcStoreLoopDequeuesAtZero(gc \ {i}, r.storage, r.max - 1)

\* a first loop that leaves the entry of a drained scope in the queue
GcStoreLoopNoDequeue(gc, st, max) ==
    IF max = 0 \/ gc = {} THEN [gc |-> gc, storage |-> st, max |-> max]
    ELSE LET r == EraseScope(st, Begin(gc).storage_id, max) IN
         [gc |-> gc, storage |-> r.storage, max |-> r.max]

\* first loop: the storage-deletion queue
RECURSIVE GcStoreLoop(_, _, _)
GcStoreLoop(gc, st, max) ==
    IF max = 0 \/ gc = {} THEN [gc |-> gc, storage |-> st, max |-> max]
    ELSE LET i == Begin(gc)
             r == EraseScope(st, i.storage_id, max) IN
         IF r.max = 0 THEN [gc |-> gc, storage |-> r.storage, max |-> 0]
         ELSE GcStoreLoop(gc \ {i}, r.storage, r.max - 1)

\* a second loop that stops at a queued code object it may not erase
RECURSIVE GcCodeLoopStopsOnLive(_, _, _)
GcCodeLoopStopsOnLive(gccode, cs, max) ==
    IF max = 0 \/ gccode = {} THEN [gccode |-> gccode, codes |-> cs, max |-> max]
    ELSE LET j == Begin(gccode)
             citr == {c \in cs : c.id = j.code_id}
             hit == citr # {} /\ Begin(citr).ref_count = 0 IN
         IF ~hit THEN [gccode |-> gccode, codes |-> cs, max |-> max]
         ELSE IF max = 1 THEN [gccode |-> gccode, codes |-> cs \ citr, max |-> 0]
         ELSE GcCodeLoopStopsOnLive(gccode \ {j}, cs \ citr, max - 2)

\* a second loop that erases the queued object whatever its ref_count
RECURSIVE GcCodeLoopErasesLive(_, _, _)
GcCodeLoopErasesLive(gccode, cs, max) ==
    IF max = 0 \/ gccode = {} THEN [gccode |-> gccode, codes |-> cs, max |-> max]
    ELSE LET j == Begin(gccode)
             citr == {c \in cs : c.id = j.code_id}
             hit == citr # {}
             cs1 == IF hit THEN cs \ citr ELSE cs
             max1 == IF hit THEN max - 1 ELSE max IN
         IF max1 = 0 THEN [gccode |-> gccode, codes |-> cs1, max |-> 0]
         ELSE GcCodeLoopErasesLive(gccode \ {j}, cs1, max1 - 1)

\* second loop: the code-deletion queue
RECURSIVE GcCodeLoop(_, _, _)
GcCodeLoop(gccode, cs, max) ==
    IF max = 0 \/ gccode = {} THEN [gccode |-> gccode, codes |-> cs, max |-> max]
    ELSE LET j == Begin(gccode)
             citr == {c \in cs : c.id = j.code_id}
             hit == citr # {} /\ Begin(citr).ref_count = 0
             cs1 == IF hit THEN cs \ citr ELSE cs
             max1 == IF hit THEN max - 1 ELSE max IN
         IF max1 = 0 THEN [gccode |-> gccode, codes |-> cs1, max |-> 0]
         ELSE GcCodeLoop(gccode \ {j}, cs1, max1 - 1)

\* a result that looks at the storage queue only
GcResultStoreOnly(gc, gccode) == gc = {}

\* return gc.begin() == gc.end() && gccode.begin() == gccode.end()
GcResult(gc, gccode) == gc = {} /\ gccode = {}

\* the path the second loop took: "skip" when it took an entry off the queue
\* and left the object the entry names stored
GcCodePath(gccode, r2) ==
    IF \E j \in gccode \ r2.gccode : \E c \in r2.codes : c.id = j.code_id
    THEN "skip" ELSE ""

\* a gc whose second loop starts from the whole budget again
gcSeparateBudgets(max) ==
    LET r1 == GcStoreLoop(gc_store, storage, max)
        r2 == GcCodeLoop(gc_code, codes, max) IN
    /\ gc_store' = r1.gc
    /\ storage' = r1.storage
    /\ gc_code' = r2.gccode
    /\ codes' = r2.codes
    /\ UNCHANGED accounts
    /\ last' = [CalledGc(max, r2.max, GcResult(r1.gc, r2.gccode))
                   EXCEPT !.branch = GcCodePath(gc_code, r2)]

gc(max) ==
    LET r1 == GcStoreLoop(gc_store, storage, max)
        r2 == GcCodeLoop(gc_code, codes, r1.max) IN
    /\ gc_store' = r1.gc
    /\ storage' = r1.storage
    /\ gc_code' = r2.gccode
    /\ codes' = r2.codes
    /\ UNCHANGED accounts
    /\ last' = [CalledGc(max, r2.max, GcResult(r1.gc, r2.gccode))
                   EXCEPT !.branch = GcCodePath(gc_code, r2)]

(* ------------------------------- reads --------------------------------- *)
CalledReadAccount(branch, address, account) ==
    [NoCall EXCEPT !.op = "read_account", !.branch = branch,
                   !.address = address, !.account = account]
CalledReadCode(branch, code_hash, code) ==
    [NoCall EXCEPT !.op = "read_code", !.branch = branch,
                   !.code_hash = code_hash, !.code = code]
CalledReadStorage(branch, address, location, result) ==
    [NoCall EXCEPT !.op = "read_storage", !.branch = branch,
                   !.address = address, !.location = location,
                   !.result = result]

\* intx::be::load<uint256>: the number a big-endian byte string denotes
RECURSIVE be_load(_)
be_load(bytes) ==
    IF bytes = <<>> THEN 0
    ELSE be_load(SubSeq(bytes, 1, Len(bytes) - 1)) * 256 + bytes[Len(bytes)]

\* account::get_balance: the stored bytes copied to the front of a zeroed
\* 32-byte word
get_balance(row) ==
    row.balance \o [i \in 1..(Uint256Bytes - Len(row.balance)) |-> 0]

\* account::get_code_hash: an absent code_hash reads as the hash of no code
get_code_hash(row) ==
    IF row.code_hash = Nullopt THEN kEmptyHash ELSE Value(row.code_hash)

\* addr2id[address] = id
addr2id_put(address, id) ==
    {e \in addr2id : e.address # address} \cup {[address |-> address, id |-> id]}
\* addr2id.find(address)
addr2id_find(cache, address) == {e \in cache : e.address = address}
\* addr2code.find(code_hash)
addr2code_find(code_hash) == {e \in addr2code : e.code_hash = code_hash}

\* an Account read back with only the last byte of its balance
AccountOfLowByte(row) ==
    [nonce |-> row.nonce,
     balance |-> be_load(<<get_balance(row)[Uint256Bytes]>>),
     code_hash |-> get_code_hash(row), incarnation |-> 0]

\* Account{itr->nonce, be::load<uint256>(itr->get_balance()), code_hash, 0}
AccountOf(row) ==
    [nonce |-> row.nonce, balance |-> be_load(get_balance(row)),
     code_hash |-> get_code_hash(row), incarnation |-> 0]

read_account(address) ==
    LET itr == FindAccount(address) IN
    /\ IF itr = {}
       THEN /\ last' = CalledReadAccount("miss", address, Nullopt)
            /\ UNCHANGED addr2id
       ELSE /\ addr2id' = addr2id_put(address, Begin(itr).id)
            /\ last' = CalledReadAccount("hit", address,
                                         Some(AccountOf(Begin(itr))))
    /\ UNCHANGED <<tables, addr2code, config, schedule>>

\* a read_code that remembers a miss as an empty entry of the cache
read_codeRemembersMiss(code_hash) ==
    LET cached == addr2code_find(code_hash)
        itr == FindCode(code_hash) IN
    /\ IF cached # {}
       THEN /\ last' = CalledReadCode("cached", code_hash, Value(cached).code)
            /\ UNCHANGED addr2code
       ELSE IF itr = {} \/ Len(Begin(itr).code) = 0
       THEN /\ last' = CalledReadCode("miss", code_hash, <<>>)
            /\ addr2code' = addr2code \cup
                               {[code_hash |-> code_hash, code |-> <<>>]}
       ELSE /\ addr2code' = addr2code \cup
                               {[code_hash |-> code_hash,
                                 code |-> Begin(itr).code]}
            /\ last' = CalledReadCode("hit", code_hash, Begin(itr).code)
    /\ UNCHANGED <<tables, addr2id, config, schedule>>

read_code(code_hash) ==
    LET cached == addr2code_find(code_hash)
        itr == FindCode(code_hash) IN
    /\ IF cached # {}
       THEN /\ last' = CalledReadCode("cached", code_hash, Value(cached).code)
            /\ UNCHANGED addr2code
       ELSE IF itr = {} \/ Len(Begin(itr).code) = 0
       THEN /\ last' = CalledReadCode("miss", code_hash, <<>>)
            /\ UNCHANGED addr2code
       ELSE /\ addr2code' = addr2code \cup
                               {[code_hash |-> code_hash,
                                 code |-> Begin(itr).code]}
            /\ last' = CalledReadCode("hit", code_hash, Begin(itr).code)
    /\ UNCHANGED <<tables, addr2id, config, schedule>>

\* the account id read_storage resolves `address` to: the cached one, else
\* the one of the directory (none when the address has no record)
LookupId(address) ==
    IF addr2id_find(addr2id, address) # {}
    THEN {Value(addr2id_find(addr2id, address)).id}
    ELSE IF FindAccount(address) = {} THEN {}
    ELSE {Begin(FindAccount(address)).id}

\* a read_storage that stores a zero slot for a location it did not find
read_storageInserts(address, location) ==
    LET cached == addr2id_find(addr2id, address)
        account_id == LookupId(address)
        itr2 == FindSlot(Value(account_id), location) IN
    /\ addr2id' = IF cached = {} /\ account_id # {}
                  THEN addr2id_put(address, Value(account_id))
                  ELSE addr2id
    /\ last' = IF account_id = {}
               THEN CalledReadStorage("no_account", address, location, 0)
               ELSE IF itr2 = {}
               THEN CalledReadStorage("no_slot", address, location, 0)
               ELSE CalledReadStorage("slot", address, location,
                                      Begin(itr2).value)
    /\ storage' = IF account_id # {} /\ itr2 = {}
                  THEN storage \cup
                       {[scope |-> Value(account_id),
                         id |-> available_primary_key(Scope(Value(account_id))),
                         key |-> location,
                         value |-> 0]}
                  ELSE storage
    /\ UNCHANGED <<accounts, codes, gc_store, gc_code, addr2code, config,
                   schedule>>

read_storage(address, location) ==
    LET cached == addr2id_find(addr2id, address)
        account_id == LookupId(address)
        itr2 == FindSlot(Value(account_id), location) IN
    /\ addr2id' = IF cached = {} /\ account_id # {}
                  THEN addr2id_put(address, Value(account_id))
                  ELSE addr2id
    /\ last' = IF account_id = {}
               THEN CalledReadStorage("no_account", address, location, 0)
               ELSE IF itr2 = {}
               THEN CalledReadStorage("no_slot", address, location, 0)
               ELSE CalledReadStorage("slot", address, location,
                                      Begin(itr2).value)
    /\ UNCHANGED <<tables, addr2code, config, schedule>>

\* a state object is constructed for every transition, its caches empty
state ==
    /\ addr2id' = {}
    /\ addr2code' = {}
    /\ last' = [NoCall EXCEPT !.op = "state"]
    /\ UNCHANGED <<tables, config, schedule>>

(* ------------------------ chain bookkeeping stubs ---------------------- *)
UnsupportedOps ==
    {"read_header", "read_body", "total_difficulty", "current_canonical_block",
     "canonical_hash", "insert_block", "canonize_block", "decanonize_block",
     "insert_receipts", "unwind_state_changes", "state_root_hash"}
BlockNumbers == {0, 1}

\* a stub that falls through to its return statement
unsupportedReturns(op) ==
    /\ last' = [NoCall EXCEPT !.op = op]
    /\ UNCHANGED <<tables, caches, config, schedule>>

\* eosio::check(false, "<op> not implemented"): the call aborts, control
\* does not come back and nothing was written
unsupported(op) ==
    /\ last' = [NoCall EXCEPT !.op = op, !.branch = "not implemented"]
    /\ UNCHANGED <<tables, caches, config, schedule>>

previous_incarnation(address) ==
    /\ last' = [NoCall EXCEPT !.op = "previous_incarnation",
                              !.address = address, !.result = 0]
    /\ UNCHANGED <<tables, caches, config, schedule>>

begin_block(block_number) ==
    /\ last' = [NoCall EXCEPT !.op = "begin_block", !.value = block_number]
    /\ UNCHANGED <<tables, caches, config, schedule>>

(* ---------------------------- setfeeparams ----------------------------- *)
\* the highest miner_cut setfeeparams accepts: 90% in units of 1/100000
MaxMinerCut == 90000

\* fee_parameters: three optionals
GasPrices == {0, OneGwei - 1, OneGwei, 2 * OneGwei}
MinerCuts == {50000, MaxMinerCut, MaxMinerCut + 1}
BridgeFees == {3, 40}
Optional(S) == {Nullopt} \cup {Some(x) : x \in S}
FeeParameters ==
    [gas_price : Optional(GasPrices), miner_cut : Optional(MinerCuts),
     ingress_bridge_fee : Optional(BridgeFees)]

\* a bound on miner_cut of 100%
miner_cut_okFull(fee_params) ==
    fee_params.miner_cut = Nullopt \/ Value(fee_params.miner_cut) <= 100000

\* "miner_cut must <= 90%"
miner_cut_ok(fee_params) ==
    fee_params.miner_cut = Nullopt \/ Value(fee_params.miner_cut) <= MaxMinerCut

\* "gas_price must >= 1Gwei"
gas_price_ok(fee_params) ==
    fee_params.gas_price = Nullopt \/ Value(fee_params.gas_price) >= OneGwei

\* the value a configuration field takes from an optional parameter
Given(parameter, stored) ==
    IF parameter = Nullopt THEN stored ELSE Value(parameter)

\* the messages of the checks that fail on fee_params
FailedChecks(fee_params) ==
    (IF miner_cut_ok(fee_params) THEN {} ELSE {"miner_cut must <= 90%"})
    \cup (IF gas_price_ok(fee_params) THEN {} ELSE {"gas_price must >= 1Gwei"})

\* the time, in block intervals, between asking for a gas price and the
\* moment it may be applied
price_queue_grace_period == 2

\* the queue after a change to `price` was asked for in the block of time
\* `now`: one entry per time, a second change in the block replaces the price
enqueue_gas_price(queue, now, price) ==
    LET time == now + price_queue_grace_period IN
    {e \in queue : e.time # time} \cup {[time |-> time, price |-> price]}

\* the first entry of the queue, which is ordered by time
Front(queue) == CHOOSE e \in queue : \A q \in queue : e.time <= q.time

\* processing that applies every entry, due or not
process_price_queueAll(queue, gas_price, now) ==
    [price_queue |-> {},
     gas_price |-> IF queue = {} THEN gas_price
                   ELSE (CHOOSE e \in queue :
                            \A q \in queue : q.time <= e.time).price]

\* processing: from the front, every entry whose time has come is applied
\* and removed
RECURSIVE process_price_queue(_, _, _)
process_price_queue(queue, gas_price, now) ==
    IF queue = {} \/ Front(queue).time > now
    THEN [price_queue |-> queue, gas_price |-> gas_price]
    ELSE process_price_queue(queue \ {Front(queue)}, Front(queue).price, now)

\* a failed check aborts the action and the configuration row stays as it
\* was; else the parameters that are present replace the stored values,
\* except that from version 1 on a gas_price goes to the price queue
setfeeparams(fee_params) ==
    /\ IF FailedChecks(fee_params) = {}
       THEN /\ config' =
                 [gas_price |-> IF evm_version >= 1 THEN config.gas_price
                                ELSE Given(fee_params.gas_price,
                                           config.gas_price),
                  miner_cut |-> Given(fee_params.miner_cut, config.miner_cut),
                  ingress_bridge_fee |->
                      Given(fee_params.ingress_bridge_fee,
                            config.ingress_bridge_fee)]
            /\ price_queue' =
                 IF evm_version >= 1 /\ fee_params.gas_price # Nullopt
                 THEN enqueue_gas_price(price_queue, block_time,
                                        Value(fee_params.gas_price))
                 ELSE price_queue
            /\ last' = [NoCall EXCEPT !.op = "setfeeparams", !.branch = "set",
                                      !.fee_params = fee_params]
       ELSE /\ UNCHANGED <<config, price_queue>>
            /\ \E message \in FailedChecks(fee_params) :
                 last' = [NoCall EXCEPT !.op = "setfeeparams",
                                        !.branch = message,
                                        !.fee_params = fee_params]
    /\ UNCHANGED <<tables, caches, evm_version, block_time>>

\* setversion(version): the version the contract runs at from then on
setversion(version) ==
    /\ evm_version' = version
    /\ last' = [NoCall EXCEPT !.op = "setversion"]
    /\ UNCHANGED <<tables, caches, config, price_queue, block_time>>

\* a token transfer into the contract, which triggers the processing of the
\* price queue
transfer ==
    LET r == process_price_queue(price_queue, config.gas_price, block_time) IN
    /\ price_queue' = r.price_queue
    /\ config' = [config EXCEPT !.gas_price = r.gas_price]
    /\ last' = [NoCall EXCEPT !.op = "transfer"]
    /\ UNCHANGED <<tables, caches, evm_version, block_time>>

\* produce_blocks(1): the pending block time moves on by one interval
produce_block ==
    /\ block_time' = block_time + 1
    /\ last' = [NoCall EXCEPT !.op = "produce_block"]
    /\ UNCHANGED <<tables, caches, config, price_queue, evm_version>>

(* ------------------------------- Next ---------------------------------- *)
\* one more call into the engine; none follows a call that aborted
Tick == ops < MaxOps /\ last.branch # "not implemented" /\ ops' = ops + 1

\* history: the slot rows (scope, id) that were stored under the id of an
\* account when update_account deleted it, for as long as the row exists;
\* the ids account rows were ever created with; the hashes of the code
\* objects erased since the state object was constructed
TrackTables ==
    LET left_behind ==
            IF last'.op = "update_account" /\ accounts' # accounts
               /\ FindAccount(last'.address) # {}
               /\ {a \in accounts' : a.eth_address = last'.address} = {}
            THEN {<<s.scope, s.id>> :
                     s \in Scope(Begin(FindAccount(last'.address)).id)}
            ELSE {} IN
    /\ doomed' = {p \in doomed \cup left_behind :
                     \E s \in storage' : s.scope = p[1] /\ s.id = p[2]}
    /\ given' = given \cup {a.id : a \in accounts'}
    /\ collected' = IF last'.op = "state" THEN {}
                    ELSE collected \cup
                         {c.code_hash : c \in {o \in codes :
                                           \A n \in codes' : n.id # o.id}}

\* the specifications that do not look at the misses of read_code
Track == TrackTables /\ UNCHANGED missed

\* history kept for the code reads: the hashes read_code returned an empty
\* view for since the state object was constructed
TrackMisses ==
    /\ TrackTables
    /\ missed' = IF last'.op = "state" THEN {}
                 ELSE IF last'.op = "read_code" /\ last'.code = <<>>
                 THEN missed \cup {last'.code_hash}
                 ELSE missed

\* no write handler and no gc touches the caches of the state object, nor
\* the configuration row
Untouched == UNCHANGED <<addr2id, addr2code, config, schedule>>

UpdateAccount ==
    /\ Tick
    /\ \E address \in Addresses, current \in OptAccounts :
         \E initial \in InitialSnapshots(current) :
            update_account(address, initial, current)
    /\ Track
    /\ Untouched

Gc == Tick /\ (\E max \in 0..MaxBudget : gc(max)) /\ Track /\ Untouched

\* code-side behaviours: every code hash and byte string, one storage slot
UpdateAccountCode ==
    /\ Tick
    /\ \E address \in Addresses, code_hash \in CodeHashes, code \in ByteStrings :
         update_account_code(address, code_hash, code)
    /\ Track
    /\ Untouched

UpdateStorageOne ==
    /\ Tick
    /\ \E address \in Addresses, initial \in InitialValues, current \in {0, 1} :
         update_storage(address, 1, initial, current)
    /\ Track
    /\ Untouched

Next == UpdateAccount \/ UpdateAccountCode \/ UpdateStorageOne \/ Gc

Spec == Init /\ [][Next]_vars

\* storage-side behaviours: every location and value, one code object
UpdateAccountCodeOne ==
    /\ Tick
    /\ \E address \in Addresses :
         update_account_code(address, "h1", <<96, 1>>)
    /\ Track
    /\ Untouched

UpdateStorage ==
    /\ Tick
    /\ \E address \in Addresses, location \in Locations,
          initial \in InitialValues, current \in Values :
         update_storage(address, location, initial, current)
    /\ Track
    /\ Untouched

NextStorage == UpdateAccount \/ UpdateAccountCodeOne \/ UpdateStorage \/ Gc

SpecStorage == Init /\ [][NextStorage]_vars

\* reading behaviours: the three reads between the writes of a transition,
\* one location, one code hash under two byte strings
ReadAccount ==
    /\ Tick
    /\ \E address \in Addresses : read_account(address)
    /\ Track

ReadCode == Tick /\ read_code("h1") /\ Track

ReadStorage ==
    /\ Tick
    /\ \E address \in Addresses : read_storage(address, 1)
    /\ Track

State == state /\ UNCHANGED ops /\ Track

\* an Account whose nonce and balance take more than one byte
WideAccount ==
    [nonce |-> 258, balance |-> 66051, code_hash |-> kEmptyHash,
     incarnation |-> 0]

UpdateAccountWide ==
    /\ Tick
    /\ \E address \in Addresses,
          current \in OptAccounts \cup {Some(WideAccount)} :
         \E initial \in InitialSnapshots(current) :
            update_account(address, initial, current)
    /\ Track
    /\ Untouched

UpdateAccountCodeBytes ==
    /\ Tick
    /\ \E address \in Addresses, code \in ByteStrings :
         update_account_code(address, "h1", code)
    /\ Track
    /\ Untouched

NextRead ==
    \/ UpdateAccountWide \/ UpdateAccountCodeBytes \/ UpdateStorageOne \/ Gc
    \/ ReadAccount \/ ReadCode \/ ReadStorage \/ State

SpecRead == Init /\ [][NextRead]_vars

\* draining behaviours: after some calls the caller repeats gc with the
\* budget of the gc call before until it returns true, and nothing else
\* runs; ops beyond MaxOps counts the repeated calls; two locations, one
\* slot value
UpdateStorageSlots ==
    /\ Tick
    /\ \E address \in Addresses, location \in Locations, current \in {0, 1} :
         update_storage(address, location, 0, current)
    /\ Track
    /\ Untouched

GcAgain ==
    /\ last.op = "gc"
    /\ last.max >= 1
    /\ ~last.ret
    /\ ops' = IF ops < MaxOps THEN MaxOps ELSE ops + 1
    /\ gc(last.max)
    /\ Track
    /\ Untouched

NextDrain ==
    \/ UpdateAccount \/ UpdateAccountCodeOne \/ UpdateStorageSlots
    \/ Gc \/ GcAgain

SpecDrain == Init /\ [][NextDrain]_vars /\ WF_vars(GcAgain)

\* chain behaviours: the bookkeeping calls between the writes
Unsupported ==
    /\ Tick
    /\ \E op \in UnsupportedOps : unsupported(op)
    /\ Track

PreviousIncarnation ==
    /\ Tick
    /\ \E address \in Addresses : previous_incarnation(address)
    /\ Track

BeginBlock ==
    /\ Tick
    /\ \E block_number \in BlockNumbers : begin_block(block_number)
    /\ Track

NextChain ==
    \/ UpdateAccount \/ UpdateAccountCodeOne \/ UpdateStorageOne \/ Gc
    \/ Unsupported \/ PreviousIncarnation \/ BeginBlock

SpecChain == Init /\ [][NextChain]_vars

\* fee governance: setfeeparams calls on the configuration row
SetFeeParams ==
    /\ Tick
    /\ \E fee_params \in FeeParameters : setfeeparams(fee_params)
    /\ Track

NextFee == SetFeeParams

SpecFee == Init /\ [][NextFee]_vars

\* code reads: the engine hands update_account_code the bytes whose hash it
\* names, empty code under the hash of empty code
CodeOf(code_hash) == IF code_hash = kEmptyHash THEN <<>> ELSE <<96, 1>>

WriteCode ==
    /\ Tick
    /\ \E address \in Addresses, code_hash \in {"h1", kEmptyHash} :
         update_account_code(address, code_hash, CodeOf(code_hash))
    /\ TrackMisses
    /\ Untouched

ReadCodeAny ==
    /\ Tick
    /\ \E code_hash \in {"h1", kEmptyHash} : read_code(code_hash)
    /\ TrackMisses

NewState == state /\ UNCHANGED ops /\ TrackMisses

UpdateAccountBetween ==
    /\ Tick
    /\ \E address \in Addresses, current \in OptAccounts :
         \E initial \in InitialSnapshots(current) :
            update_account(address, initial, current)
    /\ TrackMisses
    /\ Untouched

GcBetween ==
    Tick /\ (\E max \in 0..MaxBudget : gc(max)) /\ TrackMisses /\ Untouched

NextCode ==
    WriteCode \/ ReadCodeAny \/ NewState \/ UpdateAccountBetween \/ GcBetween

SpecCode == Init /\ [][NextCode]_vars

\* deferred gas prices: versions, blocks, price changes and the transfers
\* that trigger the processing of the queue
SetVersion == Tick /\ setversion(1) /\ Track

Transfer == Tick /\ transfer /\ Track

ProduceBlock ==
    /\ block_time < MaxTime
    /\ produce_block
    /\ Track
    /\ UNCHANGED ops

NextQueue == SetVersion \/ SetFeeParams \/ Transfer \/ ProduceBlock

SpecQueue == Init /\ [][NextQueue]_vars

(* ------------------------------ properties ----------------------------- *)
\* the slot rows for `location` in the scope of the account row of `address`
SlotsAt(accts, st, address, location) ==
    {s \in st : s.key = location /\
                \E a \in accts : a.eth_address = address /\ a.id = s.scope}

\* the account rows whose code_hash is `h`
Referencing(h) == {a \in accounts : a.code_hash = Some(h)}

\* C1: after any sequence of update_account, update_account_code,
\* update_storage and gc calls, at most one account row has a given address
C1_Uniqueness ==
    \A a, b \in accounts : a.eth_address = b.eth_address => a = b

\* both addresses hold a row, and one of them was deleted and written again
C1_Witness ==
    /\ Cardinality(accounts) = 2
    /\ gc_store # {}
    /\ last.op \in {"update_account", "update_account_code", "update_storage"}
    /\ last.branch \in {"create", "newcode_create", "refcode_create"}

\* C2: for every code object, ref_count equals the number of account rows
\* whose code_hash is its hash; a count of 0 only while the object is queued
\* for collection
C2_RefCountCorrect ==
    \A c \in codes :
        /\ c.ref_count = Cardinality(Referencing(c.code_hash))
        /\ c.ref_count = 0 => \E j \in gc_code : j.code_id = c.id

\* C3: no stored slot has value zero; update_storage with a zero value leaves
\* no row for the key in the account's scope, and with a nonzero value leaves
\* exactly one row for the key, holding that value
NoZeroSlot == \A s \in storage : s.value # 0

C3_ZeroSlotSparsity ==
    /\ NoZeroSlot
    /\ last.op = "update_storage" =>
          IF last.value = 0
          THEN SlotsAt(accounts, storage, last.address, last.location) = {}
          ELSE \E s \in storage :
                  /\ SlotsAt(accounts, storage, last.address, last.location) = {s}
                  /\ s.value = last.value

\* a slot was overwritten with the other nonzero value while a second slot
\* of the same scope stayed
C3_Witness ==
    /\ last.op = "update_storage"
    /\ last.branch = "modify"
    /\ \E s, t \in storage : s.scope = t.scope /\ s.key # t.key /\ s.value = 2

EraseBranches == {"erase_nocode", "erase_nocodeobj", "erase_gc", "erase_dec"}

\* the last call deleted the account row of last.address
Deleted(call) == call.op = "update_account" /\ call.branch \in EraseBranches

\* C4: update_account(addr, initial, absent) on an existing account with id i
\* leaves no row for addr, appends exactly one entry with storage scope i to
\* the storage-deletion queue, and keeps every slot of scope i; the slots
\* the account left behind are erased only by gc calls
C4_Step ==
    /\ Deleted(last') =>
         LET i == Begin(FindAccount(last'.address)).id IN
         /\ {a \in accounts' : a.eth_address = last'.address} = {}
         /\ \E e \in gc_store' :
              /\ e \notin gc_store
              /\ gc_store' = gc_store \cup {e}
              /\ e.storage_id = i
              /\ \A q \in gc_store : q.id < e.id
         /\ \A s \in storage : s.scope = i => s \in storage'
    /\ (\E p \in doomed : p \notin doomed') => last'.op = "gc"

C4_DeferredDeletion == [][C4_Step]_vars

\* an account holding slots was just deleted: its scope is the newest queue
\* entry and its slots are still stored
C4_Witness ==
    /\ Deleted(last)
    /\ FindAccount(last.address) = {}
    /\ \E e \in gc_store :
         /\ \A q \in gc_store : q.id <= e.id
         /\ Scope(e.storage_id) # {}
         /\ \A a \in accounts : a.id # e.storage_id

\* C5: one call gc(N) erases at most N rows in total, counting slots,
\* storage-queue entries, code objects and code-queue entries
Erased ==
    (Cardinality(storage) - Cardinality(storage'))
    + (Cardinality(gc_store) - Cardinality(gc_store'))
    + (Cardinality(codes) - Cardinality(codes'))
    + (Cardinality(gc_code) - Cardinality(gc_code'))

C5_Step ==
    last'.op = "gc" =>
        /\ storage' \subseteq storage
        /\ gc_store' \subseteq gc_store
        /\ codes' \subseteq codes
        /\ gc_code' \subseteq gc_code
        /\ Erased <= last'.max

C5_BoundedSteps == [][C5_Step]_vars

\* a gc call used up a budget of at least two with work left over
C5_Witness ==
    /\ last.op = "gc"
    /\ last.max >= 2
    /\ last.left = 0
    /\ ~last.ret
    /\ \E e \in gc_store : Scope(e.storage_id) # {}

\* C6: gc(max) with max at least the pending work empties both queues and
\* returns true; a gc call right after it returns true and changes no table
PendingWork ==
    Cardinality({s \in storage : \E e \in gc_store : e.storage_id = s.scope})
    + Cardinality(gc_store)
    + Cardinality({c \in codes : c.ref_count = 0 /\
                                 \E j \in gc_code : j.code_id = c.id})
    + Cardinality(gc_code)

C6_Step ==
    last'.op = "gc" =>
        /\ last'.max >= PendingWork =>
             gc_store' = {} /\ gc_code' = {} /\ last'.ret = TRUE
        /\ (last.op = "gc" /\ last.ret) =>
             UNCHANGED tables /\ last'.ret = TRUE

C6_GcIdempotence == [][C6_Step]_vars

\* a gc call drained three rows or more within its budget
C6_Witness ==
    /\ last.op = "gc"
    /\ last.ret
    /\ last.max - last.left >= 3
    /\ gc_store = {} /\ gc_code = {}

\* C7: gc(N) returns true exactly when both queues are empty on return;
\* gc(0) changes no table and returns false when a queue is non-empty
C7_Step ==
    last'.op = "gc" =>
        /\ last'.ret <=> (gc_store' = {} /\ gc_code' = {})
        /\ last'.max = 0 =>
             /\ UNCHANGED tables
             /\ (gc_store # {} \/ gc_code # {}) => last'.ret = FALSE

C7_GcResult == [][C7_Step]_vars

\* gc(0) ran against a non-empty code queue and an empty storage queue
C7_Witness ==
    /\ last.op = "gc"
    /\ last.max = 0
    /\ ~last.ret
    /\ gc_store = {}
    /\ gc_code # {}

\* C8: at most one code object per hash; a second address given the hash of
\* an object held by one other account makes its ref_count 2, and deleting
\* one of two holders leaves ref_count 1 and queues nothing
OneCodePerHash ==
    \A c, d \in codes : c.code_hash = d.code_hash => c = d

C8_Step ==
    /\ (/\ last'.op = "update_account_code"
        /\ \E c \in codes : c.code_hash = last'.code_hash /\ c.ref_count = 1
        /\ \E b \in accounts : /\ b.eth_address # last'.address
                               /\ b.code_hash = Some(last'.code_hash)
        /\ \A a \in FindAccount(last'.address) :
              a.code_hash # Some(last'.code_hash))
       => /\ \E c \in codes' :
               /\ {d \in codes' : d.code_hash = last'.code_hash} = {c}
               /\ c.ref_count = 2
          /\ Cardinality({a \in accounts' :
                            a.code_hash = Some(last'.code_hash)}) = 2
    /\ (/\ Deleted(last')
        /\ \E a \in FindAccount(last'.address) :
              /\ a.code_hash # Nullopt
              /\ \E c \in FindCode(Value(a.code_hash)) : c.ref_count = 2)
       => /\ gc_code' = gc_code
          /\ \A a \in FindAccount(last'.address) :
               \A c \in FindCode(Value(a.code_hash)) :
                  codes' = (codes \ {c}) \cup {[c EXCEPT !.ref_count = 1]}

C8_Dedup == []OneCodePerHash /\ [][C8_Step]_vars

\* one of two accounts sharing a code object was just deleted
C8_Witness ==
    /\ Deleted(last)
    /\ last.branch = "erase_dec"
    /\ gc_code = {}
    /\ \E c \in codes :
         c.ref_count = 1 /\ Cardinality(Referencing(c.code_hash)) = 1

\* C9: deleting the only account that references a code object with
\* ref_count 1 removes the account row, sets ref_count to 0, keeps the object
\* and its bytes, and adds exactly one code-queue entry naming the object
C9_Step ==
    (/\ Deleted(last')
     /\ \E a \in FindAccount(last'.address) :
          /\ a.code_hash # Nullopt
          /\ \E c \in FindCode(Value(a.code_hash)) :
               c.ref_count = 1 /\ Referencing(c.code_hash) = {a})
    => LET a == Begin(FindAccount(last'.address))
           c == Begin(FindCode(Value(a.code_hash))) IN
       /\ {b \in accounts' : b.eth_address = last'.address} = {}
       /\ codes' = (codes \ {c}) \cup {[c EXCEPT !.ref_count = 0]}
       /\ \E e \in gc_code' :
            /\ e \notin gc_code
            /\ gc_code' = gc_code \cup {e}
            /\ e.code_id = c.id

C9_LastReference == [][C9_Step]_vars

\* the last holder of a code object was just deleted
C9_Witness ==
    /\ Deleted(last)
    /\ last.branch = "erase_gc"
    /\ Cardinality(gc_code) = 1
    /\ \E c \in codes :
         /\ c.ref_count = 0
         /\ Referencing(c.code_hash) = {}
         /\ \E j \in gc_code : j.code_id = c.id

\* the last call deleted the last holder of a code object, and both queues
\* were empty before it
JustDeletedLastHolder ==
    /\ Deleted(last)
    /\ last.branch = "erase_gc"
    /\ Cardinality(gc_store) = 1
    /\ Cardinality(gc_code) = 1
    /\ \E c \in codes : c.id = Begin(gc_code).code_id /\ c.ref_count = 0

\* C10 as stated: from empty queues, after the last holder of a code object
\* is deleted, a single gc(1) erases the code object
C10_Original ==
    [][(JustDeletedLastHolder /\ last'.op = "gc" /\ last'.max = 1) =>
          \A c \in codes' : c.id # Begin(gc_code).code_id]_vars

\* C10 amended: in that situation gc(n) erases the code object exactly when
\* n >= s + 2, s being the number of slots stored under the deleted
\* account's id; gc(1) never does
C10_Step ==
    (JustDeletedLastHolder /\ last'.op = "gc") =>
        ((\A c \in codes' : c.id # Begin(gc_code).code_id)
         <=> last'.max >= Cardinality(Scope(Begin(gc_store).storage_id)) + 2)

C10_CodeCollected == [][C10_Step]_vars

\* create, delete, gc(2): the code object is erased and its queue entry stays
C10_Witness ==
    /\ ops = 3
    /\ last.op = "gc"
    /\ last.max = 2
    /\ codes = {}
    /\ gc_store = {}
    /\ Cardinality(gc_code) = 1

\* C11: read-your-writes for storage, for the read that directly follows the
\* write in the same transition: read_storage(addr, loc) returns the value
\* the preceding update_storage(addr, loc, _, v) was given (v itself, zero
\* when v is zero)
C11_Step ==
    (/\ last.op = "update_storage"
     /\ last'.op = "read_storage"
     /\ last'.address = last.address
     /\ last'.location = last.location)
    => last'.result = last.value
C11_ReadYourWrites == [][C11_Step]_vars

\* C12: a read_storage of an address that has no account record returns the
\* zero value, whatever was read or deleted before in the transition
C12_NoAccountReadsZero ==
    (last.op = "read_storage" /\ FindAccount(last.address) = {})
    => last.result = 0


\* C13: a read_account that directly follows an update_account which wrote
\* `current` (present and different from `initial`) for the same address
\* returns the nonce, balance and code hash of `current` with incarnation 0;
\* and every read_account returns empty exactly when the address has no record
C13_Step ==
    last'.op = "read_account" =>
        /\ (last'.account = Nullopt) <=> (FindAccount(last'.address) = {})
        /\ (/\ last.op = "update_account"
            /\ last.branch \in {"create", "modify"}
            /\ last.address = last'.address)
           => last'.account =
                Some([nonce |-> Value(last.current).nonce,
                      balance |-> Value(last.current).balance,
                      code_hash |-> Value(last.current).code_hash,
                      incarnation |-> 0])
C13_RoundTrip == [][C13_Step]_vars
\* a read returned the multi-byte account update_account had written
C13_Witness ==
    /\ last.op = "read_account"
    /\ last.account = Some(WideAccount)

\* C16: update_account_code for a hash that is already stored leaves the
\* stored bytes as they are and raises ref_count by one, whatever bytes it is
\* handed; no step changes the bytes of a code object; and read_code returns
\* the stored bytes of an object that was not collected since the state
\* object was constructed
C16_Step ==
    /\ (last'.op = "update_account_code" /\ FindCode(last'.code_hash) # {})
       => codes' = (codes \ FindCode(last'.code_hash)) \cup
                   {[c EXCEPT !.ref_count = @ + 1] :
                       c \in FindCode(last'.code_hash)}
    /\ \A c \in codes, n \in codes' :
          (n.id = c.id /\ n.code_hash = c.code_hash) => n.code = c.code
    /\ (/\ last'.op = "read_code"
        /\ FindCode(last'.code_hash) # {}
        /\ last'.code_hash \notin collected)
       => last'.code = Begin(FindCode(last'.code_hash)).code
C16_CodeImmutable == [][C16_Step]_vars
\* a second update_account_code on a stored hash was followed by a read_code
\* that returned the stored bytes
C16_Witness ==
    /\ last.op = "read_code"
    /\ last.code # <<>>
    /\ \E c \in codes : c.code_hash = last.code_hash /\ c.ref_count >= 2
                        /\ c.code = last.code


\* C14: update_account with initial == current (both absent, or both present
\* and equal) changes no account record, slot, code object or queue entry,
\* whatever is stored for the address
C14_Step ==
    (/\ last'.op = "update_account"
     /\ update_account(last'.address, last'.current, last'.current))
    => UNCHANGED tables
C14_EqualIsNoOp == [][C14_Step]_vars
\* the call ran with both snapshots absent on an address that has a record
C14_Witness ==
    /\ last.op = "update_account"
    /\ last.branch = "equal"
    /\ last.current = Nullopt
    /\ FindAccount(last.address) # {}


\* C15: an account record keeps its id through every step that leaves it
\* stored, and a record created by a step gets an id no account record was
\* ever created with before (`given`), also when that earlier record is gone
C15_Step ==
    /\ \A a \in accounts, b \in accounts' :
          a.eth_address = b.eth_address => a.id = b.id
    /\ \A b \in accounts' :
          (\A a \in accounts : a.eth_address # b.eth_address)
          => b.id \notin given
C15_StableIds == [][C15_Step]_vars


\* C17: no stored account record has a code_hash that names a code object
\* with ref_count 0 that is in the code-deletion queue, and gc erases no code
\* object that a stored account record's code_hash names
C17_NoDeadReference ==
    \A a \in accounts, c \in codes :
       a.code_hash = Some(c.code_hash)
       => ~(c.ref_count = 0 /\ \E e \in gc_code : e.code_id = c.id)
C17_Step ==
    last'.op = "gc" =>
       \A c \in codes :
          (\A n \in codes' : n.id # c.id)
          => \A a \in accounts' : a.code_hash # Some(c.code_hash)
C17_ReferentialIntegrity == []C17_NoDeadReference /\ [][C17_Step]_vars


\* C18: once gc is being repeated with a fixed budget k >= 1 and nothing
\* else runs, a call is reached that returns true with both queues empty;
\* every call that starts with a non-empty queue erases at least one row; a
\* storage-queue entry leaves the queue only with its scope empty and a
\* code-queue entry only with its object erased or referenced again
Draining == ops >= MaxOps /\ last.op = "gc" /\ last.max >= 1
Drained ==
    /\ last.op = "gc"
    /\ last.ret
    /\ gc_store = {}
    /\ gc_code = {}
C18_Step ==
    (last'.op = "gc" /\ last'.max >= 1) =>
        /\ (gc_store # {} \/ gc_code # {}) => Erased >= 1
        /\ \A e \in gc_store \ gc_store' :
              \A s \in storage' : s.scope # e.storage_id
        /\ \A j \in gc_code \ gc_code' :
              \A c \in codes' : c.id = j.code_id => c.ref_count > 0
C18_EventualDeletion == [][C18_Step]_vars /\ (Draining ~> Drained)
\* gc(1) returned true after it was repeated at least three times
C18_Witness ==
    /\ Drained
    /\ ops >= MaxOps + 2
    /\ last.max = 1


\* C19: a call of an unsupported chain operation ends as an abort with
\* "not implemented", hands back no value, changes no table, cache or
\* configuration value, and no call follows it; previous_incarnation returns
\* 0 and begin_block changes nothing
C19_Step ==
    /\ last'.op \in UnsupportedOps =>
          /\ last' = [NoCall EXCEPT !.op = last'.op,
                                    !.branch = "not implemented"]
          /\ UNCHANGED <<tables, caches, config>>
    /\ last.op \in UnsupportedOps => UNCHANGED vars
    /\ last'.op = "previous_incarnation" =>
          last'.result = 0 /\ UNCHANGED <<tables, caches, config>>
    /\ last'.op = "begin_block" => UNCHANGED <<tables, caches, config>>
C19_Unsupported == [][C19_Step]_vars
\* state_root_hash aborted a transition that had stored an account and a slot
C19_Witness ==
    /\ last.op = "state_root_hash"
    /\ last.branch = "not implemented"
    /\ accounts # {}
    /\ storage # {}


\* C20: setfeeparams leaves every configuration value it is not given as it
\* was and stores the ones it is given; a call with miner_cut above 90000 or
\* gas_price below 1 Gwei fails and leaves the whole configuration unchanged
C20_Step ==
    last'.op = "setfeeparams" =>
        LET p == last'.fee_params
            rejected ==
                \/ p.miner_cut # Nullopt /\ Value(p.miner_cut) > 90000
                \/ p.gas_price # Nullopt /\ Value(p.gas_price) < 1000000000 IN
        /\ p.gas_price = Nullopt => config'.gas_price = config.gas_price
        /\ p.miner_cut = Nullopt => config'.miner_cut = config.miner_cut
        /\ p.ingress_bridge_fee = Nullopt =>
              config'.ingress_bridge_fee = config.ingress_bridge_fee
        /\ rejected => config' = config /\ last'.branch # "set"
        /\ ~rejected =>
              /\ last'.branch = "set"
              /\ p.gas_price # Nullopt => config'.gas_price = Value(p.gas_price)
              /\ p.miner_cut # Nullopt => config'.miner_cut = Value(p.miner_cut)
              /\ p.ingress_bridge_fee # Nullopt =>
                    config'.ingress_bridge_fee = Value(p.ingress_bridge_fee)
C20_FeeFrame == [][C20_Step]_vars
\* a call that gave only miner_cut = 90000 changed it and nothing else
C20_Witness ==
    /\ last.op = "setfeeparams"
    /\ last.branch = "set"
    /\ last.fee_params = [gas_price |-> Nullopt, miner_cut |-> Some(90000),
                          ingress_bridge_fee |-> Nullopt]
    /\ config = [StartingConfig EXCEPT !.miner_cut = 90000]


\* C22: gc erases a code object only if the object has ref_count 0 and is
\* named by an entry of the code-deletion queue; gc changes no object it
\* leaves stored; and an entry whose object has ref_count above zero is
\* taken off the queue with the object (bytes and ref_count) left as it was
C22_Step ==
    last'.op = "gc" =>
        /\ \A c \in codes :
              (\A n \in codes' : n.id # c.id)
              => c.ref_count = 0 /\ \E j \in gc_code : j.code_id = c.id
        /\ codes' \subseteq codes
        /\ \A j \in gc_code \ gc_code' :
              \A c \in codes : (c.id = j.code_id /\ c.ref_count > 0)
                               => c \in codes'
C22_EraseOnlyDead == [][C22_Step]_vars
\* gc took the entry of an object off the queue that update_account_code had
\* referenced again, and the object is stored with its reference
C22_Witness ==
    /\ last.op = "gc"
    /\ last.branch = "skip"
    /\ gc_code = {}
    /\ \E c \in codes : c.ref_count = 1


\* C23: gc takes a storage-queue entry off only with its scope empty; when
\* the budget is at most the number of slots in the scope of the head entry
\* the queue is left as it was with that entry at its head, exactly `max`
\* slots of that scope are erased and nothing else is touched
C23_Step ==
    last'.op = "gc" =>
        /\ \A e \in gc_store \ gc_store' :
              \A s \in storage' : s.scope # e.storage_id
        /\ storage' \subseteq storage
        /\ (gc_store # {}
            /\ last'.max <= Cardinality(Scope(Begin(gc_store).storage_id)))
           => /\ gc_store' = gc_store
              /\ Begin(gc_store') = Begin(gc_store)
              /\ Cardinality(storage \ storage') = last'.max
              /\ \A s \in storage \ storage' :
                    s.scope = Begin(gc_store).storage_id
              /\ UNCHANGED <<codes, gc_code>>
C23_EntryOutlivesSlots == [][C23_Step]_vars
\* the budget ran out with slots left in the scope of the head entry
C23_Witness ==
    /\ last.op = "gc"
    /\ last.max >= 1
    /\ last.left = 0
    /\ gc_store # {}
    /\ Scope(Begin(gc_store).storage_id) # {}


\* C24: an entry joins a queue with an id above those of the entries in it,
\* so the order of the ids is the order of insertion; gc takes entries off
\* either queue from the oldest on, erases slots only in the scope of an
\* entry that has no older entry left behind it, and no other handler takes
\* an entry off
C24_Step ==
    /\ \A e \in gc_store' \ gc_store : \A f \in gc_store : f.id < e.id
    /\ \A j \in gc_code' \ gc_code : \A k \in gc_code : k.id < j.id
    /\ last'.op = "gc" =>
          /\ \A e \in gc_store \ gc_store' : \A f \in gc_store' : f.id > e.id
          /\ \A j \in gc_code \ gc_code' : \A k \in gc_code' : k.id > j.id
          /\ \A s \in storage \ storage' :
                \E e \in gc_store :
                   /\ e.storage_id = s.scope
                   /\ \A f \in gc_store' : f.id >= e.id
    /\ last'.op # "gc" =>
          gc_store \subseteq gc_store' /\ gc_code \subseteq gc_code'
C25_Step ==
    last'.op \in {"update_account", "update_account_code"} =>
        \A a \in accounts, c \in codes :
           (/\ a.code_hash = Some(c.code_hash)
            /\ c.ref_count > 0
            /\ \A b \in accounts' : b.id = a.id => b.code_hash # a.code_hash)
           => \E n \in codes' : n.id = c.id /\ n.ref_count = c.ref_count - 1
C25_DecrementOnChange == [][C25_Step]_vars


\* C26: no account record stores the hash of empty code as its code_hash:
\* "no code" is always an absent code_hash
C26_OneNoCode == \A a \in accounts : a.code_hash # Some(kEmptyHash)


\* C27: update_account_code(addr, H, bytes) leaves exactly one account record
\* for addr, with code_hash H; a record it creates has nonce 0 and an id no
\* stored record has (the id may be that of a record deleted before, C15);
\* a record it finds keeps every other field; no slot and no other record
\* changes; the code object for H is created with ref_count 1 or has its
\* ref_count raised by exactly one
C27_Step ==
    last'.op = "update_account_code" =>
        LET old == FindAccount(last'.address)
            new == {b \in accounts' : b.eth_address = last'.address}
            oldc == FindCode(last'.code_hash)
            newc == {n \in codes' : n.code_hash = last'.code_hash} IN
        /\ Cardinality(new) = 1
        /\ \A b \in new : b.code_hash = Some(last'.code_hash)
        /\ accounts' \ new = accounts \ old
        /\ old = {} => \A b \in new :
                          b.nonce = 0 /\ \A a \in accounts : a.id # b.id
        /\ old # {} => \A a \in old :
                          new = {[a EXCEPT !.code_hash = Some(last'.code_hash)]}
        /\ UNCHANGED <<storage, gc_store, gc_code>>
        /\ Cardinality(newc) = 1
        /\ codes' \ newc = codes \ oldc
        /\ oldc = {} => \A n \in newc : n.ref_count = 1
        /\ oldc # {} => \A c \in oldc :
                           newc = {[c EXCEPT !.ref_count = c.ref_count + 1]}
C28_Step ==
    (/\ last'.op = "update_account"
     /\ last'.branch # "equal"
     /\ last'.current = Nullopt
     /\ \E a \in FindAccount(last'.address) :
           /\ a.code_hash # Nullopt
           /\ FindCode(Value(a.code_hash)) = {})
    => LET row == Begin(FindAccount(last'.address)) IN
       /\ last'.branch = "erase_nocodeobj"
       /\ accounts' = accounts \ {row}
       /\ gc_store' = gc_store \cup
              {[id |-> available_primary_key(gc_store), storage_id |-> row.id]}
       /\ UNCHANGED <<codes, gc_code, storage>>
C28_DanglingHashTolerated == [][C28_Step]_vars
\* such a deletion happened while a code object and slots were stored
C28_Witness ==
    /\ last.op = "update_account"
    /\ last.branch = "erase_nocodeobj"
    /\ FindAccount(last.address) = {}
    /\ gc_store # {}
    /\ codes # {}
    /\ \E e \in gc_store : Scope(e.storage_id) # {}


\* C29: update_storage with a zero current value creates nothing: without
\* an account record, or without a slot for the location, every table is as
\* it was; with the slot, that one slot is erased and nothing else changes
C29_Step ==
    (last'.op = "update_storage" /\ last'.value = 0)
    => LET slot == {s \in storage :
                       /\ s.key = last'.location
                       /\ \E a \in accounts :
                             /\ a.eth_address = last'.address
                             /\ a.id = s.scope} IN
       /\ Cardinality(slot) <= 1
       /\ storage' = storage \ slot
       /\ UNCHANGED <<accounts, codes, gc_store, gc_code>>
C29_ZeroCreatesNothing == [][C29_Step]_vars
\* a zero write erased one slot of an account that keeps another one
C29_Witness ==
    /\ last.op = "update_storage"
    /\ last.value = 0
    /\ last.branch = "erase"
    /\ \E a \in accounts :
          /\ a.eth_address = last.address
          /\ Scope(a.id) # {}
          /\ FindSlot(a.id, last.location) = {}

\* C30: update_account on a stored account with `current` present changes
\* only that record's nonce, balance and code_hash: the record keeps its id
\* and its address, and every other record, every slot, every code object
\* and both queues are as they were
C30_Step ==
    (/\ last'.op = "update_account"
     /\ last'.current # Nullopt
     /\ FindAccount(last'.address) # {})
    => LET old == FindAccount(last'.address)
           new == {b \in accounts' : b.eth_address = last'.address} IN
       /\ Cardinality(new) = 1
       /\ \A a \in old, b \in new : b.id = a.id
       /\ accounts' \ new = accounts \ old
       /\ last'.branch # "equal" =>
             \A b \in new :
                /\ b.nonce = Value(last'.current).nonce
                /\ b.balance = to_bytes(Value(last'.current).balance)
                /\ b.code_hash =
                       NormalizedCodeHash(Value(last'.current).code_hash)
       /\ UNCHANGED <<storage, codes, gc_store, gc_code>>
C30_ModifyInPlace == [][C30_Step]_vars
\* the modified account owns a slot while a code object is stored and another
\* account exists
C30_Witness ==
    /\ last.op = "update_account"
    /\ last.branch = "modify"
    /\ codes # {}
    /\ Cardinality(accounts) = 2
    /\ \E a \in accounts : a.eth_address = last.address /\ Scope(a.id) # {}


\* C21 as stated: at every version, the configured gas_price changes only
\* when a transfer triggers the processing of a queue entry whose time has
\* come, and setfeeparams with a gas_price leaves an entry for it, due a
\* grace period after the pending block time
C21_StepAnyVersion ==
    /\ config'.gas_price # config.gas_price =>
          /\ last'.op = "transfer"
          /\ \E e \in price_queue :
                e.time <= block_time /\ e.price = config'.gas_price
    /\ (/\ last'.op = "setfeeparams"
        /\ last'.branch = "set"
        /\ last'.fee_params.gas_price # Nullopt)
       => [time |-> block_time + price_queue_grace_period,
           price |-> Value(last'.fee_params.gas_price)] \in price_queue'
C21_DeferredAtAnyVersion == [][C21_StepAnyVersion]_vars

\* C21: once the contract runs at version 1 or above, gas-price changes are
\* deferred through a queue ordered by time: an accepted setfeeparams with a
\* gas_price leaves gas_price as it is and leaves exactly one entry for the
\* pending block time plus the grace period, carrying the new price, with
\* every other entry as it was (a second change in the block replaces the
\* price of the entry); the configured gas_price changes only when a
\* transfer triggers the processing; the processing removes exactly the
\* entries whose time has come, applies them oldest first, so that the price
\* of the newest of them is the configured one afterwards, and leaves the
\* later entries queued
C21_Step ==
    evm_version >= 1 =>
        LET time == block_time + price_queue_grace_period
            due == {e \in price_queue : e.time <= block_time} IN
        /\ (/\ last'.op = "setfeeparams"
            /\ last'.branch = "set"
            /\ last'.fee_params.gas_price # Nullopt)
           => /\ config'.gas_price = config.gas_price
              /\ {e \in price_queue' : e.time = time} =
                     {[time |-> time,
                       price |-> Value(last'.fee_params.gas_price)]}
              /\ {e \in price_queue' : e.time # time} =
                     {e \in price_queue : e.time # time}
        /\ config'.gas_price # config.gas_price =>
              last'.op = "transfer" /\ due # {}
        /\ price_queue' # price_queue =>
              last'.op \in {"setfeeparams", "transfer"}
        /\ last'.op = "transfer" =>
              /\ price_queue' = price_queue \ due
              /\ due = {} => config' = config
              /\ \A e \in due :
                    (\A q \in due : q.time <= e.time)
                    => config' = [config EXCEPT !.gas_price = e.price]
C21_Deferred == [][C21_Step]_vars
\* a transfer applied two entries at once, the older one asking for 2 Gwei
\* and the newer one for 1 Gwei, and left a later entry queued
C21_Witness ==
    /\ last.op = "transfer"
    /\ evm_version = 1
    /\ config.gas_price = OneGwei
    /\ price_queue = {[time |-> block_time + 1, price |-> 2 * OneGwei]}
    /\ block_time = 3


\* C31: read_code(H) returns the stored bytes of the code object for H when
\* one exists with non-empty bytes and an empty view otherwise (for as long
\* as no object for H was collected since the state object was constructed);
\* a miss is not remembered: when read_code(H) has returned empty in this
\* transition and update_account_code(addr, H, bytes) has just run, the next
\* read_code(H) returns bytes
C31_Step ==
    /\ (last'.op = "read_code" /\ last'.code_hash \notin collected)
       => /\ \A c \in FindCode(last'.code_hash) : last'.code = c.code
          /\ FindCode(last'.code_hash) = {} => last'.code = <<>>
    /\ (/\ last.op = "update_account_code"
        /\ last.code_hash \in missed
        /\ last.code_hash \notin collected
        /\ last'.op = "read_code"
        /\ last'.code_hash = last.code_hash)
       => last'.code = CodeOf(last.code_hash)
C31_MissNotRemembered == [][C31_Step]_vars
\* read_code returned the bytes of h1 after it had returned an empty view
\* for h1 in the same transition
C31_Witness ==
    /\ last.op = "read_code"
    /\ last.code_hash = "h1"
    /\ last.code = <<96, 1>>
    /\ "h1" \in missed
    /\ "h1" \notin collected


\* C32: gc never erases a slot that belongs to a live account: every slot a
\* gc call erases lies in a scope that is the id of no stored account record
C32_Step ==
    last'.op = "gc" =>
        \A s \in storage :
           s \notin storage' => \A a \in accounts : a.id # s.scope
C32_GcSparesLiveStorage == [][C32_Step]_vars

\* C33: no orphan storage: every stored slot lies in a scope that is the id
\* of a stored account record or the storage scope of an entry of the
\* storage-deletion queue
C33_NoOrphanStorage ==
    \A s \in storage :
       \/ \E a \in accounts : a.id = s.scope
       \/ \E e \in gc_store : e.storage_id = s.scope
\* slots are stored that only a queue entry accounts for, while the other
\* account still owns a slot
C33_Witness ==
    /\ gc_store # {}
    /\ \E s \in storage : \A a \in accounts : a.id # s.scope
    /\ \E s \in storage : \E a \in accounts : a.id = s.scope

\* C34: no leaked dead code: every code object whose ref_count is 0 is named
\* by at least one entry of the code-deletion queue
C34_NoLeakedDeadCode ==
    \A c \in codes :
       c.ref_count = 0 => \E e \in gc_code : e.code_id = c.id
\* a code object with ref_count 0 is stored, queued once, next to a code
\* object that is still referenced
C34_Witness ==
    /\ \E c \in codes :
          /\ c.ref_count = 0
          /\ Cardinality({e \in gc_code : e.code_id = c.id}) = 1
    /\ \E c \in codes : c.ref_count = 1

\* C35: within one gc call the code-deletion queue is touched only after the
\* storage-deletion queue has been emptied: a call that returns with a
\* non-empty storage queue has erased no code object and removed no
\* code-queue entry
C35_Step ==
    (last'.op = "gc" /\ gc_store' # {}) => UNCHANGED <<codes, gc_code>>
C35_StorageQueueFirst == [][C35_Step]_vars
\* a call with a budget spent it all on the storage queue, which is not
\* empty, and a dead code object is still stored and queued
C35_Witness ==
    /\ last.op = "gc"
    /\ last.max >= 1
    /\ last.left = 0
    /\ gc_store # {}
    /\ \E c \in codes :
          c.ref_count = 0 /\ \E e \in gc_code : e.code_id = c.id

\* C36: ref_count never underflows: no stored ref_count is below 0; deleting
\* an account whose code object already has ref_count 0 leaves every code
\* object as it was and adds one more code-queue entry naming that object;
\* and a gc call erases only objects that an entry names, never more objects
\* than the entries name, however many entries name the same one
C36_Step ==
    /\ \A n \in codes' : n.ref_count >= 0
    /\ (last'.op = "update_account" /\ last'.current = Nullopt
        /\ last'.branch # "equal")
       => \A a \in FindAccount(last'.address) :
             \A c \in codes :
                (a.code_hash = Some(c.code_hash) /\ c.ref_count = 0)
                => /\ codes' = codes
                   /\ gc_code' = gc_code \cup
                          {[id |-> available_primary_key(gc_code),
                            code_id |-> c.id]}
                   /\ Cardinality(gc_code') = Cardinality(gc_code) + 1
    /\ last'.op = "gc"
       => /\ \A c \in codes \ codes' : \E e \in gc_code : e.code_id = c.id
          /\ Cardinality(codes \ codes')
                <= Cardinality({e.code_id : e \in gc_code})
C36_NoUnderflow == [][C36_Step]_vars
\* two queue entries name one code object, which a gc call has erased
C36_Witness ==
    /\ last.op = "gc"
    /\ \E e1, e2 \in gc_code :
          /\ e1 # e2
          /\ e1.code_id = e2.code_id
          /\ \A c \in codes : c.id # e1.code_id
    /\ "h1" \in collected \/ "h2" \in collected

\* C37: read_account, read_code and read_storage change no persistent
\* table (accounts, slots, code objects, both queues); of the state they
\* change only the caches of the state object
C37_Step ==
    last'.op \in {"read_account", "read_code", "read_storage"}
    => UNCHANGED <<accounts, storage, codes, gc_store, gc_code, config>>
C37_ReadsChangeNoTable == [][C37_Step]_vars
\* a read_storage found no slot for an account that is stored and entered
\* the account in the cache
C37_Witness ==
    /\ last.op = "read_storage"
    /\ last.branch = "no_slot"
    /\ FindAccount(last.address) # {}
    /\ addr2id_find(addr2id, last.address) # {}
    /\ codes # {}

\* C38: update_account(addr, initial, absent) with `initial` present and no
\* stored record for addr changes no table: no account record, slot, code
\* object (ref_count included) or queue entry, and the call completes
C38_Step ==
    (/\ last'.op = "update_account"
     /\ last'.current = Nullopt
     /\ last'.branch # "equal"
     /\ FindAccount(last'.address) = {})
    => /\ UNCHANGED <<accounts, storage, codes, gc_store, gc_code>>
       /\ last'.branch = "missing"
C38_DeleteMissingIsNoOp == [][C38_Step]_vars
\* the call ran for an address without a record while the other account,
\* a code object and a queue entry were stored
C38_Witness ==
    /\ last.op = "update_account"
    /\ last.branch = "missing"
    /\ last.current = Nullopt
    /\ FindAccount(last.address) = {}
    /\ accounts # {}
    /\ codes # {}
    /\ gc_store # {}


====
